---- MODULE Spec2Model ----
(***************************************************************************)
(* Habit tracker (frontend/src/App.js): the habit registry, the completion *)
(* log, the streak walk, the completion rate and the localStorage helpers. *)
(*                                                                         *)
(* Time is a number of ticks; a calendar day is TicksPerDay ticks long, so *)
(* a timestamp has a day (startOfDay + format 'yyyy-MM-dd') and a time of  *)
(* day.  Every handler runs at one instant: the clock reads it makes       *)
(* (Date.now(), new Date()) all see the same value of clock.               *)
(***************************************************************************)
EXTENDS Integers, Sequences, FiniteSets, TLC

VARIABLES
    habits,         \* useState([]) : sequence of Habit records
    completions,    \* useState([]) : sequence of CompletionRecord records
    newHabitName,   \* useState('') : the text of the name input
    clock,          \* the wall clock, in ticks
    storage,        \* localStorage : key -> stored text
    loaded,         \* the value the last loadFromStorage call returned
    walk,           \* the local variables of one calculateStreak call
    rate,           \* the value the last getCompletionRate call returned
    react           \* the effects and state updates React has yet to run

vars == <<habits, completions, newHabitName, clock, storage, loaded, walk, rate,
          react>>

---------------------------------------------------------------------------
(* Bounds *)

TicksPerDay == 2        \* clock instants modelled per calendar day
MaxClock == 1           \* the clock runs over 0..MaxClock
MaxHabits == 2          \* habits in the registry
MaxCompletions == 2     \* records in the completion log
StreakBack == 5         \* days before today that a drawn log covers
RateDays == 2           \* days after day 0 that a habit's lifetime covers

---------------------------------------------------------------------------
(* date-fns *)

\* format(startOfDay(date), 'yyyy-MM-dd'): the calendar day of a timestamp.
\* The day key is the day's number; the text form is one-to-one with it.
dateKeyOf(ts) == ts \div TicksPerDay

\* subDays(date, n) on a start-of-day date, as a day number
subDays(day, n) == day - n

\* compareLocalAsc of date-fns: -1, 0, 1
compareLocalAsc(l, r) == IF l < r THEN -1 ELSE IF l > r THEN 1 ELSE 0

Abs(n) == IF n < 0 THEN -n ELSE n

\* differenceInDays(dateLeft, dateRight) of date-fns: the number of FULL days
\* between two timestamps, truncated towards zero.
differenceInDays(l, r) ==
    LET sign == compareLocalAsc(l, r)
        difference == Abs(dateKeyOf(l) - dateKeyOf(r))
        shifted == l - sign * difference * TicksPerDay
        isLastDayNotFull == IF compareLocalAsc(shifted, r) = -sign THEN 1 ELSE 0
    IN  sign * (difference - isLastDayNotFull)

---------------------------------------------------------------------------
(* JavaScript values and texts *)

\* Date.now().toString()
NewId(now) == ToString(now)

\* String.prototype.trim on a sequence of characters
RECURSIVE TrimStart(_)
TrimStart(s) == IF s # <<>> /\ Head(s) = " " THEN TrimStart(Tail(s)) ELSE s

RECURSIVE TrimEnd(_)
TrimEnd(s) ==
    IF s # <<>> /\ s[Len(s)] = " " THEN TrimEnd(SubSeq(s, 1, Len(s) - 1)) ELSE s

trim(s) == TrimEnd(TrimStart(s))

\* The texts typed into the name input
NameInputs == { <<" ", "a", " ">> }

\* A JavaScript value is tagged with its type.
JSArray(seq) == [t |-> "array", v |-> seq]
JSNull == [t |-> "null", v |-> <<>>]
JSString(s) == [t |-> "string", v |-> s]
JSObject == [t |-> "object", v |-> <<>>]

\* A stored text: the JSON text of a value, a text that is no JSON, or the
\* empty text.  NoItem is what getItem returns for a missing key (null).
JSONText(value) == [t |-> "json", v |-> value]
BadText == [t |-> "malformed", v |-> JSNull]
EmptyText == [t |-> "empty", v |-> JSNull]
NoItem == [t |-> "none", v |-> JSNull]

\* new Date().toISOString(): the instant as a string
toISOString(now) == [iso |-> now]

\* new Date(isoString): the instant the string denotes
newDate(isoString) == isoString.iso

\* What JSON.stringify writes for a value: the elements of an array in
\* order, the properties of an object as they are when they are strings or
\* booleans, and a Date as the string its toJSON gives (toISOString)
toJSON(value) ==
    IF value.t # "array" THEN value
    ELSE JSArray([ i \in 1..Len(value.v) |->
             LET o == value.v[i]
             IN  IF "createdAt" \in DOMAIN o
                 THEN IF "date" \in DOMAIN o.createdAt
                      THEN [o EXCEPT !.createdAt = toISOString(o.createdAt.date)]
                      ELSE o
                 ELSE o ])

\* JSON.stringify(data)
JSONstringify(value) == JSONText(toJSON(value))

\* JSON.parse(text): the value, or a SyntaxError
JSONparse(text) ==
    IF text.t = "json" THEN [threw |-> FALSE, value |-> text.v]
    ELSE [threw |-> TRUE, value |-> JSNull]

\* saveToStorage(key, data): localStorage.setItem(key, JSON.stringify(data))
saveToStorage(store, key, data) == [store EXCEPT ![key] = JSONstringify(data)]

\* loadFromStorage(key, defaultValue)
loadFromStorage(store, key, defaultValue) ==
    LET saved == store[key]
        falsy == saved.t \in {"none", "empty"}
    IN  IF falsy THEN defaultValue
        ELSE IF JSONparse(saved).threw THEN defaultValue
        ELSE JSONparse(saved).value

---------------------------------------------------------------------------
(* Completion log *)

\* completions.find(c => c.habitId === habitId && c.date === dateKey):
\* the index of the first match, 0 for undefined
find(comps, habitId, dateKey) ==
    LET hits == { i \in 1..Len(comps) :
                    comps[i].habitId = habitId /\ comps[i].date = dateKey }
    IN  IF hits = {} THEN 0 ELSE CHOOSE i \in hits : \A j \in hits : i <= j

\* Mutant: no look-up of an existing record, every toggle appends
toggledCompletionsAlwaysAppend(comps, habitId, dateKey, now) ==
    Append(comps, [ id |-> NewId(now), habitId |-> habitId,
                    date |-> dateKey, completed |-> TRUE ])

\* Mutant: the map flips every record of the habit, whatever its date
toggledCompletionsAnyDate(comps, habitId, dateKey, now) ==
    IF find(comps, habitId, dateKey) # 0
    THEN [ i \in 1..Len(comps) |->
             IF comps[i].habitId = habitId
             THEN [comps[i] EXCEPT !.completed = ~comps[i].completed]
             ELSE comps[i] ]
    ELSE Append(comps, [ id |-> NewId(now), habitId |-> habitId,
                         date |-> dateKey, completed |-> TRUE ])

\* Mutant: an existing record is set to completed instead of flipped
toggledCompletionsSetTrue(comps, habitId, dateKey, now) ==
    IF find(comps, habitId, dateKey) # 0
    THEN [ i \in 1..Len(comps) |->
             IF comps[i].habitId = habitId /\ comps[i].date = dateKey
             THEN [comps[i] EXCEPT !.completed = TRUE]
             ELSE comps[i] ]
    ELSE Append(comps, [ id |-> NewId(now), habitId |-> habitId,
                         date |-> dateKey, completed |-> TRUE ])

\* The value toggleHabitCompletion passes to setCompletions
toggledCompletions(comps, habitId, dateKey, now) ==
    IF find(comps, habitId, dateKey) # 0
    THEN [ i \in 1..Len(comps) |->
             IF comps[i].habitId = habitId /\ comps[i].date = dateKey
             THEN [comps[i] EXCEPT !.completed = ~comps[i].completed]
             ELSE comps[i] ]
    ELSE Append(comps, [ id |-> NewId(now), habitId |-> habitId,
                         date |-> dateKey, completed |-> TRUE ])

\* isHabitCompleted(habitId, date): completion && completion.completed,
\* which is undefined when there is no record
isHabitCompleted(comps, habitId, date) ==
    LET i == find(comps, habitId, dateKeyOf(date))
    IN  IF i = 0 THEN "undefined"
        ELSE IF comps[i].completed THEN "true" ELSE "false"

\* ToBoolean of the values isHabitCompleted returns
Truthy(v) == v = "true"

---------------------------------------------------------------------------
(* Metrics *)

\* completions.filter(c => c.habitId === habit.id && c.completed).length
completedDays(habit, comps) ==
    Cardinality({ i \in 1..Len(comps) :
                    comps[i].habitId = habit.id /\ comps[i].completed })

Max(a, b) == IF a >= b THEN a ELSE b

\* Math.round(x) for x = num / den >= 0: the nearest integer, halves up
MathRound(num, den) == (2 * num + den) \div (2 * den)

\* getCompletionRate(habit), evaluated at the instant now
getCompletionRate(habit, comps, now) ==
    LET daysElapsed == Max(1, differenceInDays(now, newDate(habit.createdAt)) + 1)
    IN  MathRound(completedDays(habit, comps) * 100, daysElapsed)

---------------------------------------------------------------------------
(* The application: handlers of App *)

NotRated == [habitId |-> "", value |-> 0]

NotLoaded == [key |-> "", value |-> JSNull]

\* No set* call is pending for a state
NoUpdate == [set |-> FALSE, value |-> JSNull]

NoSnapshot == [key \in {"habits", "completions"} |-> NoItem]

\* React is idle: no effect to run, no state to render; saved is what the
\* slots held when the application started, kept while it mounts
Mounted == [mounting |-> FALSE, effects |-> <<>>, setHabits |-> NoUpdate,
            setCompletions |-> NoUpdate, saved |-> NoSnapshot]

IdleWalk == [pc |-> "idle", habitId |-> "", today |-> 0, currentDate |-> 0,
             streak |-> 0, iterations |-> 0, skips |-> 0]

\* The first render with nothing stored: the load effect finds no item and
\* sets the empty sequences, and the save effects store them.
Init ==
    /\ habits = <<>>
    /\ completions = <<>>
    /\ newHabitName = <<>>
    /\ clock = 0
    /\ storage = [key \in {"habits", "completions"} |-> JSONstringify(JSArray(<<>>))]
    /\ loaded = NotLoaded
    /\ walk = IdleWalk
    /\ rate = NotRated
    /\ react = Mounted

\* onChange of the name input: setNewHabitName(e.target.value)
setNewHabitName(text) ==
    /\ newHabitName' = text
    /\ UNCHANGED <<habits, completions, clock, storage, loaded, walk, rate, react>>

\* The habit addHabit builds
newHabit(now, name) ==
    [id |-> NewId(now), name |-> trim(name), color |-> "#3B82F6", createdAt |-> toISOString(now)]

\* addHabit(), and the save effect of habits
addHabit ==
    /\ trim(newHabitName) # <<>>
    /\ Len(habits) < MaxHabits                     \* the registry's bound
    /\ habits' = Append(habits, newHabit(clock, newHabitName))
    /\ newHabitName' = <<>>
    /\ storage' = saveToStorage(storage, "habits", JSArray(habits'))
    /\ UNCHANGED <<completions, clock, loaded, walk, rate, react>>

\* addHabit() with a name that trims to nothing: no state is set
addHabitBlank ==
    /\ trim(newHabitName) = <<>>
    /\ UNCHANGED vars

\* habits.filter(h => h.id !== habitId)
habitsWithout(hs, habitId) == SelectSeq(hs, LAMBDA h : h.id # habitId)

\* completions.filter(c => c.habitId !== habitId)
completionsWithout(comps, habitId) == SelectSeq(comps, LAMBDA c : c.habitId # habitId)

\* deleteHabit(habitId), and the save effects of habits and completions
deleteHabit(habitId) ==
    /\ habits' = habitsWithout(habits, habitId)
    /\ completions' = completionsWithout(completions, habitId)
    /\ storage' = saveToStorage(saveToStorage(storage, "habits", JSArray(habits')),
                                "completions", JSArray(completions'))
    /\ UNCHANGED <<newHabitName, clock, loaded, walk, rate, react>>

\* toggleHabitCompletion(habitId, date), and the save effect of completions
toggleHabitCompletion(habitId, date) ==
    /\ IF find(completions, habitId, dateKeyOf(date)) # 0 THEN TRUE
       ELSE Len(completions) < MaxCompletions     \* the log's bound
    /\ completions' = toggledCompletions(completions, habitId, dateKeyOf(date), clock)
    /\ storage' = saveToStorage(storage, "completions", JSArray(completions'))
    /\ UNCHANGED <<habits, newHabitName, clock, loaded, walk, rate, react>>

\* Time passes
Tick ==
    /\ clock < MaxClock
    /\ clock' = clock + 1
    /\ UNCHANGED <<habits, completions, newHabitName, storage, loaded, walk, rate, react>>

\* The ids a caller may pass: those of the habits shown, and one of no habit
UnknownId == "unknown"
HabitIds == { habits[i].id : i \in 1..Len(habits) } \cup {UnknownId}

\* The dates a caller may pass: new Date(), or the start of a calendar day
\* (eachDayOfInterval), one day of the future included
Dates == {clock} \cup { d * TicksPerDay : d \in 0..(dateKeyOf(MaxClock) + 1) }

Next ==
    \/ \E text \in NameInputs : setNewHabitName(text)
    \/ addHabit
    \/ addHabitBlank
    \/ \E habitId \in HabitIds : deleteHabit(habitId)
    \/ \E habitId \in HabitIds, date \in Dates : toggleHabitCompletion(habitId, date)
    \/ Tick

Spec == Init /\ [][Next]_vars

---------------------------------------------------------------------------
(* calculateStreak, one loop iteration at a time *)

\* completion && completion.completed for the day of the cursor
completedOn(comps, habitId, day) ==
    /\ find(comps, habitId, day) # 0
    /\ comps[find(comps, habitId, day)].completed

\* Lines 22-24: today = startOfDay(new Date()), streak = 0, currentDate = today
streakStart(habit, now) ==
    [pc |-> "loop", habitId |-> habit.id, today |-> dateKeyOf(now),
     currentDate |-> dateKeyOf(now), streak |-> 0, iterations |-> 0, skips |-> 0]

\* Mutant: an open today ends the walk (no look at yesterday)
streakStepNoSkip(w, comps, now) ==
    IF completedOn(comps, w.habitId, w.currentDate)
    THEN [w EXCEPT !.streak = @ + 1,
                   !.currentDate = subDays(@, 1),
                   !.iterations = @ + 1]
    ELSE [w EXCEPT !.pc = "done", !.iterations = @ + 1]

\* Mutant: any open day is skipped while the streak is 0 (isToday not asked)
streakStepSkipAny(w, comps, now) ==
    IF completedOn(comps, w.habitId, w.currentDate)
    THEN [w EXCEPT !.streak = @ + 1,
                   !.currentDate = subDays(@, 1),
                   !.iterations = @ + 1]
    ELSE IF w.streak = 0
    THEN [w EXCEPT !.currentDate = subDays(@, 1),
                   !.iterations = @ + 1,
                   !.skips = @ + 1]
    ELSE [w EXCEPT !.pc = "done", !.iterations = @ + 1]

\* Lines 26-39: one pass through the body of while (true).  isToday(currentDate)
\* compares the cursor's day with the day of the clock.
streakStep(w, comps, now) ==
    IF completedOn(comps, w.habitId, w.currentDate)
    THEN [w EXCEPT !.streak = @ + 1,
                   !.currentDate = subDays(@, 1),
                   !.iterations = @ + 1]
    ELSE IF w.streak = 0 /\ w.currentDate = dateKeyOf(now)
    THEN [w EXCEPT !.currentDate = subDays(@, 1),
                   !.iterations = @ + 1,
                   !.skips = @ + 1]
    ELSE [w EXCEPT !.pc = "done", !.iterations = @ + 1]

\* A log of one habit over the days 0..StreakBack+1, one record at most for
\* each day, in day order; status[d] is "none", "true" or "false".
RECURSIVE logOf(_, _, _)
logOf(habitId, status, day) ==
    IF day < 0 THEN <<>>
    ELSE IF status[day] = "none" THEN logOf(habitId, status, day - 1)
    ELSE Append(logOf(habitId, status, day - 1),
                [ id |-> NewId(day * TicksPerDay), habitId |-> habitId,
                  date |-> day, completed |-> (status[day] = "true") ])

StreakDays == 0..(StreakBack + 1)

\* Two habits created on day 0; any log of the first, followed by no record
\* or a completed record on every day for the second; today is day StreakBack.
InitStreak ==
    /\ habits = << newHabit(0, <<"a">>), newHabit(1, <<"b">>) >>
    /\ \E status \in [StreakDays -> {"none", "true", "false"}],
          other \in {"none", "true"} :
          completions = logOf(habits[1].id, status, StreakBack + 1)
                        \o logOf(habits[2].id, [d \in StreakDays |-> other],
                                 StreakBack + 1)
    /\ newHabitName = <<>>
    /\ clock \in { StreakBack * TicksPerDay + tod : tod \in {0, TicksPerDay - 1} }
    /\ storage = [key \in {"habits", "completions"} |-> NoItem]
    /\ loaded = NotLoaded
    /\ walk = IdleWalk
    /\ rate = NotRated
    /\ react = Mounted

\* calculateStreak(habit, completions) is called for a habit of the registry
calculateStreakCall ==
    /\ walk.pc = "idle"
    /\ \E i \in 1..Len(habits) : walk' = streakStart(habits[i], clock)
    /\ UNCHANGED <<habits, completions, newHabitName, clock, storage, loaded, rate, react>>

calculateStreakLoop ==
    /\ walk.pc = "loop"
    /\ walk' = streakStep(walk, completions, clock)
    /\ UNCHANGED <<habits, completions, newHabitName, clock, storage, loaded, rate, react>>

NextStreak == calculateStreakCall \/ calculateStreakLoop

\* The loop is synchronous code: once called it runs on.
SpecStreak == InitStreak /\ [][NextStreak]_vars /\ WF_vars(NextStreak)

---------------------------------------------------------------------------
(* getCompletionRate over the lifetimes and logs of a habit *)

RateTicks == 0..((RateDays + 1) * TicksPerDay - 1)

\* A habit created at any instant, any log of it over the days 0..RateDays
\* (one record per day at most), followed by no record or a completed record
\* on every day for a second habit; the clock is at or after the creation.
InitRate ==
    /\ \E created \in RateTicks :
          /\ habits = << newHabit(created, <<"a">>), newHabit(created + 1, <<"b">>) >>
          /\ clock \in { t \in RateTicks : t >= created }
    /\ \E status \in [0..RateDays -> {"none", "true", "false"}],
          other \in {"none", "true"} :
          completions = logOf(habits[1].id, status, RateDays)
                        \o logOf(habits[2].id, [d \in 0..RateDays |-> other], RateDays)
    /\ newHabitName = <<>>
    /\ storage = [key \in {"habits", "completions"} |-> NoItem]
    /\ loaded = NotLoaded
    /\ walk = IdleWalk
    /\ rate = NotRated
    /\ react = Mounted

\* getCompletionRate(habit) is called for the first habit (StatsView)
getCompletionRateCall ==
    /\ rate = NotRated
    /\ rate' = [habitId |-> habits[1].id,
                value |-> getCompletionRate(habits[1], completions, clock)]
    /\ UNCHANGED <<habits, completions, newHabitName, clock, storage, loaded, walk, react>>

NextRate == getCompletionRateCall

SpecRate == InitRate /\ [][NextRate]_vars

---------------------------------------------------------------------------
(* loadFromStorage over what a slot may hold *)

SomeHabits == << newHabit(0, <<"a">>) >>

StoredTexts ==
    { NoItem, EmptyText, BadText,
      JSONText(JSNull), JSONText(JSString("light")), JSONText(JSObject),
      JSONText(JSArray(<<>>)), JSONText(JSArray(SomeHabits)) }

InitLoad ==
    /\ habits = <<>>
    /\ completions = <<>>
    /\ newHabitName = <<>>
    /\ clock = 0
    /\ storage \in [{"habits", "completions"} -> StoredTexts]
    /\ loaded = NotLoaded
    /\ walk = IdleWalk
    /\ rate = NotRated
    /\ react = Mounted

\* Lines 62-63: loadFromStorage('habits', []), loadFromStorage('completions', [])
loadCall(key) ==
    /\ loaded' = [key |-> key, value |-> loadFromStorage(storage, key, JSArray(<<>>))]
    /\ UNCHANGED <<habits, completions, newHabitName, clock, storage, walk, rate, react>>

NextLoad == \E key \in {"habits", "completions"} : loadCall(key)

SpecLoad == InitLoad /\ [][NextLoad]_vars

---------------------------------------------------------------------------
(* The start of the application over stored data: the effects of App *)

\* Mutant: the load effect declared after the save effects
mountEffectsLoadLast == <<"saveHabits", "saveCompletions", "load">>

\* The effects of the first render, which React runs in the order App
\* declares them: load (deps []), save habits, save completions
mountEffects == <<"load", "saveHabits", "saveCompletions">>

\* What an earlier run of the application left in the slots at the instant
\* now: a registry and a log its handlers built, each saved by its effect
SavedHabits(now) ==
    { <<>>, << newHabit(0, <<"a">>) >> }
    \cup { << newHabit(0, <<"a">>), newHabit(t, <<"b">>) >> : t \in 1..now }

SavedCompletions(hs) ==
    IF hs = <<>> THEN { <<>> }
    ELSE LET once == toggledCompletions(<<>>, hs[1].id, dateKeyOf(0), 0)
         IN  { <<>>, once,
               toggledCompletions(once, hs[1].id, dateKeyOf(0), 0),
               toggledCompletions(once, hs[Len(hs)].id, dateKeyOf(0) + 1, 0) }

\* The first render: the states are the useState defaults, the effects of
\* the render are still to run, the slots hold what was saved
InitPersist ==
    /\ habits = <<>>
    /\ completions = <<>>
    /\ newHabitName = <<>>
    /\ clock \in 0..MaxClock
    /\ \E hs \in SavedHabits(clock) : \E cs \in SavedCompletions(hs) :
          storage = saveToStorage(saveToStorage(NoSnapshot, "habits", JSArray(hs)),
                                  "completions", JSArray(cs))
    /\ loaded = NotLoaded
    /\ walk = IdleWalk
    /\ rate = NotRated
    /\ react = [mounting |-> TRUE, effects |-> mountEffects, setHabits |-> NoUpdate,
                setCompletions |-> NoUpdate, saved |-> storage]

\* React runs the next effect of the committed render.  A save effect sees
\* the state of that render; the load effect calls setHabits and
\* setCompletions, which take effect at the next render.
runEffect ==
    /\ react.effects # <<>>
    /\ LET effect == Head(react.effects)
           rest == Tail(react.effects)
       IN  IF effect = "load"
           THEN /\ react' = [react EXCEPT
                      !.effects = rest,
                      !.setHabits = [set |-> TRUE, value |->
                          loadFromStorage(storage, "habits", JSArray(<<>>))],
                      !.setCompletions = [set |-> TRUE, value |->
                          loadFromStorage(storage, "completions", JSArray(<<>>))]]
                /\ UNCHANGED storage
           ELSE IF effect = "saveHabits"
           THEN /\ storage' = saveToStorage(storage, "habits", JSArray(habits))
                /\ react' = [react EXCEPT !.effects = rest]
           ELSE /\ storage' = saveToStorage(storage, "completions", JSArray(completions))
                /\ react' = [react EXCEPT !.effects = rest]
    /\ UNCHANGED <<habits, completions, newHabitName, clock, loaded, walk, rate>>

\* React renders the pending state updates; the effects whose dependency
\* was set to a new array are to run again
render ==
    /\ react.effects = <<>>
    /\ react.setHabits.set \/ react.setCompletions.set
    /\ habits' = IF react.setHabits.set THEN react.setHabits.value.v ELSE habits
    /\ completions' = IF react.setCompletions.set THEN react.setCompletions.value.v
                      ELSE completions
    /\ react' = [react EXCEPT
          !.effects = (IF react.setHabits.set THEN <<"saveHabits">> ELSE <<>>)
                      \o (IF react.setCompletions.set THEN <<"saveCompletions">>
                          ELSE <<>>),
          !.setHabits = NoUpdate,
          !.setCompletions = NoUpdate]
    /\ UNCHANGED <<newHabitName, clock, storage, loaded, walk, rate>>

\* Nothing is left to run: the application waits for the user
settle ==
    /\ react.mounting
    /\ react.effects = <<>>
    /\ ~react.setHabits.set /\ ~react.setCompletions.set
    /\ react' = Mounted
    /\ UNCHANGED <<habits, completions, newHabitName, clock, storage, loaded, walk, rate>>

\* The handlers run once the application has started
NextPersist ==
    \/ runEffect
    \/ render
    \/ settle
    \/ /\ react = Mounted
       /\ \E text \in NameInputs : setNewHabitName(text)
    \/ /\ react = Mounted
       /\ addHabit
    \/ /\ react = Mounted
       /\ addHabitBlank
    \/ /\ react = Mounted
       /\ \E habitId \in HabitIds : deleteHabit(habitId)
    \/ /\ react = Mounted
       /\ \E habitId \in HabitIds, date \in Dates : toggleHabitCompletion(habitId, date)
    \/ /\ react = Mounted
       /\ Tick

\* React runs every effect and render it has scheduled
SpecPersist ==
    InitPersist /\ [][NextPersist]_vars /\ WF_vars(runEffect \/ render \/ settle)

---------------------------------------------------------------------------
(* Properties of the registry and the log (Spec) *)

RegistryIds == { habits[i].id : i \in 1..Len(habits) }

\* The positions of the records of (habitId, dateKey) in a log
RecordsOf(comps, habitId, dateKey) ==
    { i \in 1..Len(comps) : comps[i].habitId = habitId /\ comps[i].date = dateKey }

\* The records of a log that are not of (habitId, dateKey), in order
OtherRecords(comps, habitId, dateKey) ==
    SelectSeq(comps, LAMBDA c : ~(c.habitId = habitId /\ c.date = dateKey))

\* C1: the completion log holds at most one record for each (habitId, date)
\* pair, in every state reached by addHabit, deleteHabit and toggle calls.
C1_OneRecordPerHabitAndDate ==
    \A i, j \in 1..Len(completions) :
        (completions[i].habitId = completions[j].habitId
            /\ completions[i].date = completions[j].date) => i = j

\* A habit toggled on two days, and on one of them a second time
C1_Witness ==
    /\ Len(completions) = 2
    /\ completions[1].habitId \in RegistryIds
    /\ completions[2].habitId = completions[1].habitId
    /\ completions[2].completed = FALSE

\* C2: what a toggle of (habitId, dateKey) does to the log and the registry
C2_ToggleEffect(habitId, dateKey) ==
    /\ habits' = habits
    /\ IF RecordsOf(completions, habitId, dateKey) = {}
       THEN /\ Len(completions') = Len(completions) + 1
            /\ SubSeq(completions', 1, Len(completions)) = completions
            /\ completions'[Len(completions')].habitId = habitId
            /\ completions'[Len(completions')].date = dateKey
            /\ completions'[Len(completions')].completed = TRUE
       ELSE /\ Len(completions') = Len(completions)
            /\ \A i \in 1..Len(completions) :
                  IF i \in RecordsOf(completions, habitId, dateKey)
                  THEN /\ completions'[i].completed = ~completions[i].completed
                       /\ completions'[i].id = completions[i].id
                       /\ completions'[i].habitId = completions[i].habitId
                       /\ completions'[i].date = completions[i].date
                  ELSE completions'[i] = completions[i]

\* C2: a toggle with no record for the pair appends one record with
\* completed = true; with a record it flips that record in place (same id,
\* habitId, date, position); other records and the registry do not change,
\* and no record is removed.
C2_ToggleAppendsOrFlips ==
    [][ \A habitId \in HabitIds, date \in Dates :
          toggleHabitCompletion(habitId, date)
             => C2_ToggleEffect(habitId, dateKeyOf(date)) ]_vars

\* The first record of the log has been flipped in place after the second
\* one, of another habit, was appended
C2_Witness ==
    /\ Len(habits) = 2
    /\ Len(completions) = 2
    /\ completions[1].habitId = habits[1].id
    /\ completions[2].habitId = habits[2].id
    /\ habits[1].id # habits[2].id
    /\ completions[1].completed = FALSE
    /\ completions[2].completed = TRUE

\* C4: every record's habitId is the id of a habit of the registry
C4_NoOrphanRecords ==
    \A i \in 1..Len(completions) : completions[i].habitId \in RegistryIds

\* The log after toggleHabitCompletion(habitId, date) is called twice in a row
ToggledTwice(habitId, date) ==
    toggledCompletions(
        toggledCompletions(completions, habitId, dateKeyOf(date), clock),
        habitId, dateKeyOf(date), clock)

\* C5: from any reachable state, two toggles of one (habitId, day) in a row
\* give isCompleted the value it had before the first, and leave the other
\* records as they were.
C5_DoubleToggleIsIdentity ==
    \A habitId \in HabitIds, date \in Dates :
        LET twice == ToggledTwice(habitId, date)
        IN  /\ Truthy(isHabitCompleted(twice, habitId, date))
                 = Truthy(isHabitCompleted(completions, habitId, date))
            /\ OtherRecords(twice, habitId, dateKeyOf(date))
                 = OtherRecords(completions, habitId, dateKeyOf(date))

\* A log of one record, of a habit of the registry, that two toggles of its
\* day have taken from no record to completed and on to not completed
C5_Witness ==
    /\ Len(completions) = 1
    /\ completions[1].habitId \in RegistryIds
    /\ completions[1].completed = FALSE
    /\ isHabitCompleted(completions, completions[1].habitId,
                        completions[1].date * TicksPerDay) = "false"

\* C6: the rate is round(100 * C / D), D the calendar days from the day of
\* createdAt to today, both included (at least 1)   (SpecRate)
C6_RateOverCalendarDays ==
    rate # NotRated =>
        rate.value
          = MathRound(100 * completedDays(habits[1], completions),
                      Max(1, dateKeyOf(clock) - dateKeyOf(newDate(habits[1].createdAt)) + 1))

\* C7: deleteHabit and toggle with an id of no habit change neither the
\* registry nor the log
C7_MissingReferenceNoOp ==
    [][ \A habitId \in HabitIds \ RegistryIds :
          (deleteHabit(habitId)
             \/ \E date \in Dates : toggleHabitCompletion(habitId, date))
          => (habits' = habits /\ completions' = completions) ]_vars

\* C8: no two habits of the registry have the same id
C8_UniqueHabitIds ==
    \A i, j \in 1..Len(habits) : habits[i].id = habits[j].id => i = j

---------------------------------------------------------------------------
(* Properties of the streak walk (SpecStreak) *)

\* The habit has a completed record for the day
DoneOn(habitId, day) ==
    \E i \in 1..Len(completions) :
        /\ completions[i].habitId = habitId
        /\ completions[i].date = day
        /\ completions[i].completed

\* The length of the longest run of completed days that ends at day `last`
RunEndingAt(habitId, last) ==
    Cardinality({ k \in 1..(last + 1) :
                    \A j \in 0..(k - 1) : DoneOn(habitId, last - j) })

ExpectedStreak(habitId, today) ==
    IF DoneOn(habitId, today) THEN RunEndingAt(habitId, today)
    ELSE RunEndingAt(habitId, today - 1)

\* C3: the streak returned is the length of the run of completed days that
\* ends at today when today is completed, and at yesterday otherwise.
C3_StreakIsRunLength ==
    walk.pc = "done" => walk.streak = ExpectedStreak(walk.habitId, walk.today)

\* today-4..yesterday completed, today open, tomorrow completed: streak 4
C3_Witness ==
    /\ walk.pc = "done"
    /\ walk.streak = 4
    /\ ~DoneOn(walk.habitId, walk.today)
    /\ DoneOn(walk.habitId, walk.today + 1)

\* C10: the walk ends; it skips at most once, only at today with streak 0;
\* any other open day ends it; it makes at most (completed days + 2) passes.
C10_StreakWalkTerminates ==
    /\ (walk.pc = "loop") ~> (walk.pc = "done")
    /\ [](walk.pc # "idle" =>
            /\ walk.skips <= 1
            /\ walk.iterations
                 <= Cardinality({ d \in StreakDays : DoneOn(walk.habitId, d) }) + 2)
    /\ [][ walk.pc = "loop" =>
            /\ (walk'.currentDate < walk.currentDate /\ walk'.streak = walk.streak)
                  => /\ walk.currentDate = walk.today
                     /\ walk.streak = 0
                     /\ walk'.skips = walk.skips + 1
            /\ (~DoneOn(walk.habitId, walk.currentDate)
                  /\ ~(walk.currentDate = walk.today /\ walk.streak = 0))
                  => walk'.pc = "done" ]_vars

\* A walk that skipped the open today and made (completed days + 2) passes
C10_Witness ==
    /\ walk.pc = "done"
    /\ walk.skips = 1
    /\ walk.streak >= 2
    /\ walk.iterations
         = Cardinality({ d \in StreakDays : DoneOn(walk.habitId, d) }) + 2

---------------------------------------------------------------------------
(* Properties of loadFromStorage (SpecLoad) *)

\* C9: load returns the stored sequence when the slot holds a serialized
\* sequence, and the empty sequence in every other case
C9_LoadReturnsSequence ==
    loaded.key # "" =>
        /\ loaded.value.t = "array"
        /\ loaded.value
             = IF storage[loaded.key].t = "json" /\ storage[loaded.key].v.t = "array"
               THEN storage[loaded.key].v
               ELSE JSArray(<<>>)

\* C11: starting over saved habits and completions, the effects of the first
\* render end with the states equal to the saved sequences (field for field,
\* in order) and with the slots holding what they held, although the save
\* effects first store the empty initial state; the start does end; and
\* whenever no effect is left to run, after the start and after every
\* addHabit, deleteHabit and toggleHabitCompletion, each slot holds the whole
\* current sequence   (SpecPersist)
C11_PersistenceOrdering ==
    /\ [][ (react.mounting /\ ~react'.mounting) =>
             /\ JSArray(habits') = JSONparse(react.saved["habits"]).value
             /\ JSArray(completions') = JSONparse(react.saved["completions"]).value
             /\ storage' = react.saved ]_vars
    /\ [](react = Mounted =>
             /\ storage["habits"] = JSONstringify(JSArray(habits))
             /\ storage["completions"] = JSONstringify(JSArray(completions)))
    /\ <>(react = Mounted)

\* The start has run to its end over two saved habits and two saved records,
\* the slots having held the empty sequences in between
C11_Witness ==
    /\ react.mounting
    /\ react.effects = <<>>
    /\ ~react.setHabits.set /\ ~react.setCompletions.set
    /\ Len(habits) = 2 /\ Len(completions) = 2
    /\ habits[1] # habits[2] /\ completions[1] # completions[2]
    /\ storage = react.saved

====
